---- MODULE Spec2Model ----
(***************************************************************************)
(* MacPing: a background sampler thread appends ping latencies to a        *)
(* bounded history (src/macping.py); the menu-bar bitmap is rendered from  *)
(* it on the sampler thread, and the detail window's chart is rendered     *)
(* from a list copy of it on the main (UI) thread (src/window.py).         *)
(*                                                                         *)
(* Latencies are whole milliseconds.  The probe's float seconds are kept   *)
(* as whole hundredths of a second.                                        *)
(* CPython runs deque.append and list(deque) as single C calls under the   *)
(* interpreter lock, so each is one step of its thread.                    *)
(***************************************************************************)
EXTENDS Integers, Sequences, FiniteSets

(* ------------------------------------------------------------------ *)
(* Configuration (src/macping.py 19-41, src/window.py 23-46)           *)
(* ------------------------------------------------------------------ *)

\* HISTORY_SIZE is 60 in the source; the model runs the same code at a
\* small capacity.
HISTORY_SIZE == 3
INITIAL_LATENCY == 10
LATENCY_MIN == 0
LATENCY_MAX == 100
BAR_WIDTH == 3
BAR_HEIGHT == 18
BAR_COLOR == <<255, 255, 255>>
BAR_COLOR_WARNING == <<255, 0, 0>>

WINDOW_WIDTH == 560
WINDOW_HEIGHT == 350
MARGIN_LEFT == 60
MARGIN_RIGHT == 20
MARGIN_TOP == 20
MARGIN_BOTTOM == 30

\* Python's None as a sample: a failed probe.  Latencies are >= 0.
None == -1
\* self.window / self.graph_view / self.update_timer = None
NoWindow == 0
NoTimer == 0

(* ------------------------------------------------------------------ *)
(* Bounds of the model                                                 *)
(* ------------------------------------------------------------------ *)

\* sampler iterations explored
MaxTicks == 3
\* windows (and timers) the window manager may create
MaxShows == 3
\* results the probe returns in the sampler specification, in hundredths
\* of a second: 50 ms
PingResults == {5}
\* latencies (ms) the renderers are run on in the renderer specification
RenderValues == {0, 3, 10, 98, 100, 101, 150}

Max(a, b) == IF a >= b THEN a ELSE b
Min(a, b) == IF a <= b THEN a ELSE b

\* the module globals LATENCY_MIN and LATENCY_MAX as the renderer reads
\* them while the program runs
VARIABLE config

\* the configuration as the source sets it (lines 32-33)
StandardConfig == [latency_min |-> LATENCY_MIN, latency_max |-> LATENCY_MAX]

\* configurations with LATENCY_MAX = LATENCY_MIN below INITIAL_LATENCY
\* (the baseline history renders, so construction succeeds), and the
\* configuration of the source
Configs ==
    {StandardConfig,
     [latency_min |-> 0, latency_max |-> 0],
     [latency_min |-> 3, latency_max |-> 3]}

(* ------------------------------------------------------------------ *)
(* History buffer: collections.deque(maxlen=HISTORY_SIZE)              *)
(* ------------------------------------------------------------------ *)

\* deque([INITIAL_LATENCY] * HISTORY_SIZE, maxlen=HISTORY_SIZE)
NewHistory == [i \in 1..HISTORY_SIZE |-> INITIAL_LATENCY]

\* a deque that evicts the newest element instead of the oldest
DequeAppendEvictNewest(d, x) ==
    IF Len(d) >= HISTORY_SIZE THEN SubSeq(d, 1, Len(d) - 1) \o <<x>> ELSE Append(d, x)
\* deque.append with maxlen: when full, the leftmost element is discarded
DequeAppend(d, x) ==
    IF Len(d) >= HISTORY_SIZE THEN Tail(d) \o <<x>> ELSE Append(d, x)

\* latency_ms = result * 1000, for a result in hundredths of a second
ToMilliseconds(result) == (result * 1000) \div 100

\* a copy that reads the deque one element too far to the right, as a copy
\* torn by a concurrent append would
ListCopyTorn(d) ==
    [i \in 1..Len(d) |-> IF i < Len(d) THEN d[i + 1] ELSE d[1]]
\* list(self.manager.ping_history): an independent copy, element by element
ListCopy(d) == [i \in 1..Len(d) |-> d[i]]

(* ------------------------------------------------------------------ *)
(* Bitmap renderer: MacPingApp._generate_histogram_image               *)
(* ------------------------------------------------------------------ *)

\* a renderer without the one-pixel floor
BarOfNoFloor(ping_result) ==
    IF ping_result = None \/ ping_result > LATENCY_MAX
    THEN [bar_pixels |-> BAR_HEIGHT, color |-> BAR_COLOR_WARNING]
    ELSE LET latency_range == LATENCY_MAX - LATENCY_MIN
             clamped == Max(0, Min(latency_range, ping_result - LATENCY_MIN))
         IN  [bar_pixels |-> (clamped * BAR_HEIGHT) \div latency_range,
              color |-> BAR_COLOR]
\* bar height and colour of one sample (lines 133-146).  normalized is
\* clamped / latency_range; int() truncates the non-negative product.
BarOf(ping_result) ==
    IF ping_result = None
    THEN [bar_pixels |-> BAR_HEIGHT, color |-> BAR_COLOR_WARNING]
    ELSE IF ping_result > config.latency_max
    THEN [bar_pixels |-> BAR_HEIGHT, color |-> BAR_COLOR_WARNING]
    ELSE LET latency_range == config.latency_max - config.latency_min
             clamped == Max(0, Min(latency_range, ping_result - config.latency_min))
         IN  [bar_pixels |-> Max(1, (clamped * BAR_HEIGHT) \div latency_range),
              color |-> BAR_COLOR]

\* the division of line 143 is reached for a sample that is neither None
\* nor above LATENCY_MAX; with latency_range = 0 it raises ZeroDivisionError
ZeroDivision(history) ==
    /\ config.latency_max - config.latency_min = 0
    /\ \E k \in 1..Len(history) :
          history[k] # None /\ history[k] <= config.latency_max

BarRectangleWide(i, ping_result) ==
    LET bar == BarOf(ping_result)
        x_position == i * BAR_WIDTH
        y_top == BAR_HEIGHT - bar.bar_pixels
    IN  [x0 |-> x_position, y0 |-> y_top,
         x1 |-> x_position + BAR_WIDTH, y1 |-> BAR_HEIGHT - 1,
         fill |-> bar.color]

\* the rectangle drawn for sample i (0-based) of the history (lines 131-152)
BarRectangle(i, ping_result) ==
    LET bar == BarOf(ping_result)
        x_position == i * BAR_WIDTH
        y_top == BAR_HEIGHT - bar.bar_pixels
    IN  [x0 |-> x_position, y0 |-> y_top,
         x1 |-> x_position + BAR_WIDTH - 1, y1 |-> BAR_HEIGHT - 1,
         fill |-> bar.color]

\* the image: its size and the rectangles drawn on the transparent
\* background, in drawing order
GenerateHistogramImage(history) ==
    [width |-> HISTORY_SIZE * BAR_WIDTH,
     height |-> BAR_HEIGHT,
     bars |-> [k \in 1..Len(history) |-> BarRectangle(k - 1, history[k])]]

\* no image: the temporary file as mkstemp leaves it
NoImage == [width |-> 0, height |-> 0, bars |-> <<>>]

(* ------------------------------------------------------------------ *)
(* Chart renderer: LatencyGraphView                                    *)
(* ------------------------------------------------------------------ *)

GraphWidth == WINDOW_WIDTH - MARGIN_LEFT - MARGIN_RIGHT
GraphHeight == WINDOW_HEIGHT - MARGIN_TOP - MARGIN_BOTTOM

\* _calculate_y_position
CalculateYPosition(latency) ==
    LET clamped_latency == Min(latency, LATENCY_MAX)
    IN  MARGIN_BOTTOM + (clamped_latency * GraphHeight) \div LATENCY_MAX

\* x = MARGIN_LEFT + i * x_step, x_step = graph_width / (len - 1); the
\* division is exact for the history sizes the model runs
XPosition(i, n) == MARGIN_LEFT + (i * GraphWidth) \div (n - 1)

\* indices (0-based) of the samples the first loop visits with a latency
RECURSIVE ValidIndices(_, _)
ValidIndices(history, k) ==
    IF k > Len(history) THEN <<>>
    ELSE IF history[k] # None
    THEN <<k - 1>> \o ValidIndices(history, k + 1)
    ELSE ValidIndices(history, k + 1)

\* the connecting line (lines 155-169): the first valid sample is a
\* moveToPoint, every later valid sample a lineToPoint from the current
\* point of the path
LinePath(history) ==
    [k \in 1..Len(ValidIndices(history, 1)) |->
        LET i == ValidIndices(history, 1)[k]
        IN  [op |-> IF k = 1 THEN "moveTo" ELSE "lineTo",
             i |-> i,
             x |-> XPosition(i, Len(history)),
             y |-> CalculateYPosition(history[i + 1])]]

\* a renderer that draws a failure as a data point at the bottom
MarkerOfFlat(i, latency, n) ==
    [kind |-> "point", i |-> i, x |-> XPosition(i, n),
     y |-> IF latency = None THEN MARGIN_BOTTOM ELSE CalculateYPosition(latency),
     color |-> IF latency # None /\ latency > LATENCY_MAX THEN "red" ELSE "accent"]

\* a renderer whose data point is red from LATENCY_MAX on
MarkerOfInclusive(i, latency, n) ==
    IF latency = None
    THEN [kind |-> "X", i |-> i, x |-> XPosition(i, n),
          y |-> MARGIN_BOTTOM, color |-> "red"]
    ELSE [kind |-> "point", i |-> i, x |-> XPosition(i, n),
          y |-> CalculateYPosition(latency),
          color |-> IF latency >= LATENCY_MAX THEN "red" ELSE "accent"]

\* data points and failure markers (lines 175-214)
MarkerOf(i, latency, n) ==
    IF latency = None
    THEN [kind |-> "X", i |-> i, x |-> XPosition(i, n),
          y |-> MARGIN_BOTTOM, color |-> "red"]
    ELSE [kind |-> "point", i |-> i, x |-> XPosition(i, n),
          y |-> CalculateYPosition(latency),
          color |-> IF latency > LATENCY_MAX THEN "red" ELSE "accent"]

\* _draw_latency_graph: nothing for fewer than two samples
DrawLatencyGraph(history) ==
    IF Len(history) < 2
    THEN [line |-> <<>>, marks |-> <<>>]
    ELSE [line |-> LinePath(history),
          marks |-> [k \in 1..Len(history) |->
                        MarkerOf(k - 1, history[k], Len(history))]]

\* _draw_grid_and_labels: five grid lines, each with its label in ms
GridLines ==
    [k \in 1..5 |-> [y_pos |-> MARGIN_BOTTOM + ((k - 1) * GraphHeight) \div 4,
                     label |-> ((k - 1) * LATENCY_MAX) \div 4]]

\* what drawRect_ draws for a non-empty history
DrawChart(history) ==
    [drawn |-> TRUE,
     grid |-> GridLines,
     line |-> DrawLatencyGraph(history).line,
     marks |-> DrawLatencyGraph(history).marks]

\* the view before its first drawRect_
NoChart == [drawn |-> FALSE, grid |-> <<>>, line |-> <<>>, marks |-> <<>>]

(* ------------------------------------------------------------------ *)
(* State                                                               *)
(* ------------------------------------------------------------------ *)

VARIABLES
    running,        \* MacPingApp.running
    ping_history,   \* MacPingApp.ping_history, shared with WindowManager
    pc,             \* position of the sampler thread in _ping_worker
    probeFailed,    \* the probe of the current iteration returned None or raised
    icon_file,      \* the temporary PNG file at temp_icon_path
    icon,           \* the image the menu bar shows (self.icon)
    nProbes,        \* calls of ping() so far
    nAppends,       \* ping_history.append calls so far
    nUpdates,       \* _update_display calls of the sampler thread so far
    qpc,            \* position of the main thread in quit_app
    atStop,         \* nAppends when running was set to False (0 before)
    uipc,           \* position of the main thread in drawRect_
    snapshot,       \* drawRect_'s local list copy of the history
    snapStamp,      \* nAppends and nUpdates when the copy was taken
    chart,          \* what the graph view last drew
    window,         \* WindowManager.window
    graph_view,     \* WindowManager.graph_view
    update_timer,   \* WindowManager.update_timer
    visibleWindows, \* panels on screen (isVisible)
    liveTimers,     \* scheduled timers not yet invalidated
    needsDisplay,   \* the graph view was asked to redraw
    nWindows,       \* panels (and graph views) created so far
    nTimers,        \* timers created so far
    lastShow        \* what the last show_details call did

samplerVars == <<running, ping_history, pc, probeFailed, icon_file, icon,
                 nProbes, nAppends, nUpdates>>
drawVars == <<uipc, snapshot, snapStamp, chart>>
windowVars == <<window, graph_view, update_timer, visibleWindows, liveTimers,
                needsDisplay, nWindows, nTimers, lastShow>>
vars == <<running, ping_history, pc, probeFailed, icon_file, icon,
          nProbes, nAppends, nUpdates, qpc, atStop, config,
          uipc, snapshot, snapStamp, chart,
          window, graph_view, update_timer, visibleWindows, liveTimers,
          needsDisplay, nWindows, nTimers, lastShow>>

\* MacPingApp.__init__ (lines 52-75): the history is pre-filled, the first
\* _update_display runs before the sampler thread starts, the window
\* manager holds no window, and the thread is at the top of its loop.
Init ==
    /\ config = StandardConfig
    /\ running = TRUE
    /\ ping_history = NewHistory
    /\ pc = "loop"
    /\ probeFailed = FALSE
    /\ icon_file = [exists |-> TRUE, image |-> GenerateHistogramImage(NewHistory)]
    /\ icon = GenerateHistogramImage(NewHistory)
    /\ nProbes = 0
    /\ nAppends = 0
    /\ nUpdates = 0
    /\ qpc = "idle"
    /\ atStop = 0
    /\ uipc = "idle"
    /\ snapshot = <<>>
    /\ snapStamp = [appends |-> 0, updates |-> 0]
    /\ chart = NoChart
    /\ window = NoWindow
    /\ graph_view = NoWindow
    /\ update_timer = NoTimer
    /\ visibleWindows = {}
    /\ liveTimers = {}
    /\ needsDisplay = FALSE
    /\ nWindows = 0
    /\ nTimers = 0
    /\ lastShow = "none"

\* the process lives until rumps.quit_application()
Alive == qpc # "terminated"
\* the main thread's run loop is between two handlers
MainIdle == qpc = "idle" /\ uipc = "idle"

(* ------------------------------------------------------------------ *)
(* Sampler thread: MacPingApp._ping_worker                             *)
(* ------------------------------------------------------------------ *)

\* while self.running: (line 79)
LoopTest ==
    /\ Alive
    /\ pc = "loop"
    /\ IF running
       THEN nProbes < MaxTicks /\ pc' = "ping"
       ELSE pc' = "exited"
    /\ UNCHANGED <<running, ping_history, probeFailed, icon_file, icon,
                   nProbes, nAppends, nUpdates, qpc, atStop, config>>
    /\ UNCHANGED drawVars
    /\ UNCHANGED windowVars

\* a worker that does not record a probe that returned None
PingDropsFailure ==
    /\ Alive
    /\ pc = "ping"
    /\ nProbes' = nProbes + 1
    /\ \E outcome \in PingResults \cup {None} :
          /\ probeFailed' = (outcome = None)
          /\ pc' = "try_display"
          /\ IF outcome # None
             THEN /\ ping_history' = DequeAppend(ping_history, ToMilliseconds(outcome))
                  /\ nAppends' = nAppends + 1
             ELSE UNCHANGED <<ping_history, nAppends>>
    /\ UNCHANGED <<running, icon_file, icon, nUpdates, qpc, atStop, config>>
    /\ UNCHANGED drawVars
    /\ UNCHANGED windowVars
\* result = ping(...), then the append of the try block (lines 82-90); a
\* probe that raises leaves for the except clause without an append
Ping ==
    /\ Alive
    /\ pc = "ping"
    /\ nProbes' = nProbes + 1
    /\ \/ \E result \in PingResults :
             /\ ping_history' = DequeAppend(ping_history, ToMilliseconds(result))
             /\ nAppends' = nAppends + 1
             /\ probeFailed' = FALSE
             /\ pc' = "try_display"
       \/ /\ ping_history' = DequeAppend(ping_history, None)
          /\ nAppends' = nAppends + 1
          /\ probeFailed' = TRUE
          /\ pc' = "try_display"
       \/ /\ UNCHANGED <<ping_history, nAppends>>
          /\ probeFailed' = TRUE
          /\ pc' = "except"
    /\ UNCHANGED <<running, icon_file, icon, nUpdates, qpc, atStop, config>>
    /\ UNCHANGED drawVars
    /\ UNCHANGED windowVars

\* _update_display (lines 103-115) for one of its outcomes: "ok", "save"
\* (pil_image.save raises) or "icon" (the icon assignment raises)
UpdateDisplay(outcome) ==
    /\ nUpdates' = nUpdates + 1
    /\ IF Len(ping_history) = 0 \/ outcome = "render"
       THEN UNCHANGED <<icon_file, icon>>
       ELSE LET pil_image == GenerateHistogramImage(ping_history)
            IN  /\ icon_file' = IF outcome = "save" THEN icon_file
                                ELSE [exists |-> TRUE, image |-> pil_image]
                /\ icon' = IF outcome = "ok" THEN pil_image ELSE icon

\* how a call of _update_display can end: "render" is the exception of
\* _generate_histogram_image (line 109), which a history with a
\* division by zero always raises
DisplayOutcomes ==
    IF ZeroDivision(ping_history) THEN {"render"} ELSE {"ok", "save", "icon"}

\* self._update_display() of the try block (line 93)
TryUpdateDisplay ==
    /\ Alive
    /\ pc = "try_display"
    /\ \E outcome \in DisplayOutcomes :
          /\ UpdateDisplay(outcome)
          /\ pc' = IF outcome = "ok" \/ Len(ping_history) = 0 THEN "sleep" ELSE "except"
    /\ UNCHANGED <<running, ping_history, probeFailed, nProbes, nAppends, qpc, atStop, config>>
    /\ UNCHANGED drawVars
    /\ UNCHANGED windowVars

\* except Exception: self.ping_history.append(None) (lines 95-97)
ExceptAppend ==
    /\ Alive
    /\ pc = "except"
    /\ ping_history' = DequeAppend(ping_history, None)
    /\ nAppends' = nAppends + 1
    /\ pc' = "except_display"
    /\ UNCHANGED <<running, probeFailed, icon_file, icon, nProbes, nUpdates, qpc, atStop, config>>
    /\ UNCHANGED drawVars
    /\ UNCHANGED windowVars

\* self._update_display() of the except clause (line 98): an exception
\* here leaves _ping_worker and ends the thread
ExceptUpdateDisplay ==
    /\ Alive
    /\ pc = "except_display"
    /\ \E outcome \in DisplayOutcomes :
          /\ UpdateDisplay(outcome)
          /\ pc' = IF outcome = "ok" \/ Len(ping_history) = 0 THEN "sleep" ELSE "crashed"
    /\ UNCHANGED <<running, ping_history, probeFailed, nProbes, nAppends, qpc, atStop, config>>
    /\ UNCHANGED drawVars
    /\ UNCHANGED windowVars

\* time.sleep(PING_INTERVAL) (line 101)
Sleep ==
    /\ Alive
    /\ pc = "sleep"
    /\ pc' = "loop"
    /\ UNCHANGED <<running, ping_history, probeFailed, icon_file, icon,
                   nProbes, nAppends, nUpdates, qpc, atStop, config>>
    /\ UNCHANGED drawVars
    /\ UNCHANGED windowVars

(* ------------------------------------------------------------------ *)
(* Main thread: WindowManager                                          *)
(* ------------------------------------------------------------------ *)

\* self.window.isVisible()
IsVisible(w) == w \in visibleWindows

\* a guard that never finds the window open
AlreadyOpenNever == FALSE
\* self.window is not None and self.window.isVisible() (line 241)
AlreadyOpen == window # NoWindow /\ IsVisible(window)

\* a stop that forgets the timer without invalidating it
StopUpdateTimerLeak ==
    /\ update_timer' = NoTimer
    /\ UNCHANGED liveTimers
\* _stop_update_timer (lines 299-303)
StopUpdateTimer ==
    IF update_timer # NoTimer
    THEN /\ liveTimers' = liveTimers \ {update_timer}
         /\ update_timer' = NoTimer
    ELSE UNCHANGED <<update_timer, liveTimers>>


\* a start that schedules the new timer without invalidating the one held
StartUpdateTimerKeepsOld ==
    /\ nTimers' = nTimers + 1
    /\ update_timer' = nTimers + 1
    /\ liveTimers' = liveTimers \cup {nTimers + 1}

\* _start_update_timer (lines 285-297): the timer held is invalidated, a
\* new repeating timer is scheduled
StartUpdateTimer ==
    /\ nTimers' = nTimers + 1
    /\ update_timer' = nTimers + 1
    /\ liveTimers' = (liveTimers \ {update_timer}) \cup {nTimers + 1}

\* _create_window (lines 260-283): a new panel and a new graph view, the
\* view marked for display and the panel ordered front
CreateWindow ==
    /\ nWindows' = nWindows + 1
    /\ window' = nWindows + 1
    /\ graph_view' = nWindows + 1
    /\ needsDisplay' = TRUE
    /\ visibleWindows' = visibleWindows \cup {nWindows + 1}

\* a show_details that also renders and publishes the bitmap, on the
\* main thread
ShowDetailsRendersIcon ==
    /\ Alive /\ MainIdle
    /\ IF AlreadyOpen
       THEN /\ lastShow' = "front"
            /\ UNCHANGED <<window, graph_view, update_timer, visibleWindows,
                           liveTimers, needsDisplay, nWindows, nTimers>>
       ELSE /\ nWindows < MaxShows
            /\ CreateWindow
            /\ StartUpdateTimer
            /\ lastShow' = "created"
    /\ icon' = GenerateHistogramImage(ping_history)
    /\ icon_file' = [exists |-> TRUE, image |-> icon']
    /\ UNCHANGED <<running, ping_history, pc, probeFailed, nProbes, nAppends, nUpdates>>
    /\ UNCHANGED drawVars
    /\ UNCHANGED <<qpc, atStop, config>>

\* show_details (lines 238-248)
ShowDetails ==
    /\ Alive /\ MainIdle
    /\ IF AlreadyOpen
       THEN /\ lastShow' = "front"
            /\ UNCHANGED <<window, graph_view, update_timer, visibleWindows,
                           liveTimers, needsDisplay, nWindows, nTimers>>
       ELSE /\ nWindows < MaxShows
            /\ CreateWindow
            /\ StartUpdateTimer
            /\ lastShow' = "created"
    /\ UNCHANGED samplerVars
    /\ UNCHANGED drawVars
    /\ UNCHANGED <<qpc, atStop, config>>

\* on_window_close (lines 250-254), called as the window closes
OnWindowClose ==
    /\ Alive /\ MainIdle
    /\ window # NoWindow
    /\ StopUpdateTimer
    /\ window' = NoWindow
    /\ graph_view' = NoWindow
    /\ visibleWindows' = visibleWindows \ {window}
    /\ UNCHANGED <<needsDisplay, nWindows, nTimers, lastShow>>
    /\ UNCHANGED samplerVars
    /\ UNCHANGED drawVars
    /\ UNCHANGED <<qpc, atStop, config>>

\* external dismissal: the panel hides when the application is
\* deactivated (setHidesOnDeactivate_, line 347); no method of the
\* manager is called
Dismiss ==
    /\ Alive /\ MainIdle
    /\ window # NoWindow /\ IsVisible(window)
    /\ visibleWindows' = visibleWindows \ {window}
    /\ UNCHANGED <<window, graph_view, update_timer, liveTimers, needsDisplay,
                   nWindows, nTimers, lastShow>>
    /\ UNCHANGED samplerVars
    /\ UNCHANGED drawVars
    /\ UNCHANGED <<qpc, atStop, config>>

\* a callback that keeps redrawing a window that is not visible
UpdateGraphRedrawsHidden ==
    /\ Alive /\ MainIdle
    /\ liveTimers # {}
    /\ IF graph_view = NoWindow \/ window = NoWindow
       THEN UNCHANGED <<update_timer, liveTimers, needsDisplay>>
       ELSE needsDisplay' = TRUE /\ UNCHANGED <<update_timer, liveTimers>>
    /\ UNCHANGED <<window, graph_view, visibleWindows, nWindows, nTimers, lastShow>>
    /\ UNCHANGED samplerVars
    /\ UNCHANGED drawVars
    /\ UNCHANGED <<qpc, atStop, config>>

\* updateGraph_ (lines 305-316), the callback of every live timer
UpdateGraph ==
    /\ Alive /\ MainIdle
    /\ liveTimers # {}
    /\ IF graph_view = NoWindow \/ window = NoWindow
       THEN UNCHANGED <<update_timer, liveTimers, needsDisplay>>
       ELSE IF IsVisible(window)
       THEN needsDisplay' = TRUE /\ UNCHANGED <<update_timer, liveTimers>>
       ELSE StopUpdateTimer /\ UNCHANGED needsDisplay
    /\ UNCHANGED <<window, graph_view, visibleWindows, nWindows, nTimers, lastShow>>
    /\ UNCHANGED samplerVars
    /\ UNCHANGED drawVars
    /\ UNCHANGED <<qpc, atStop, config>>

(* ------------------------------------------------------------------ *)
(* Main thread: LatencyGraphView.drawRect_                             *)
(* ------------------------------------------------------------------ *)

\* the list copy that opens drawRect_ (lines 84-86); AppKit draws the
\* view while its panel is on screen
DrawRectSnapshot ==
    /\ Alive /\ MainIdle
    /\ graph_view # NoWindow /\ IsVisible(graph_view)
    /\ IF Len(ListCopy(ping_history)) = 0
       THEN UNCHANGED drawVars
       ELSE /\ snapshot' = ListCopy(ping_history)
            /\ snapStamp' = [appends |-> nAppends, updates |-> nUpdates]
            /\ uipc' = "drawing"
            /\ UNCHANGED chart
    /\ UNCHANGED samplerVars
    /\ UNCHANGED windowVars
    /\ UNCHANGED <<qpc, atStop, config>>

\* the rest of drawRect_ (lines 88-104), drawn from the copy
DrawRectDraw ==
    /\ Alive
    /\ uipc = "drawing"
    /\ chart' = DrawChart(snapshot)
    /\ snapshot' = <<>>
    /\ uipc' = "idle"
    /\ needsDisplay' = FALSE
    /\ snapStamp' = [appends |-> 0, updates |-> 0]
    /\ UNCHANGED <<window, graph_view, update_timer, visibleWindows, liveTimers,
                   nWindows, nTimers, lastShow>>
    /\ UNCHANGED samplerVars
    /\ UNCHANGED <<qpc, atStop, config>>

(* ------------------------------------------------------------------ *)
(* Main thread: MacPingApp.quit_app                                    *)
(* ------------------------------------------------------------------ *)

\* self.running = False (line 164)
QuitStop ==
    /\ MainIdle
    /\ running' = FALSE
    /\ qpc' = "stopped"
    /\ atStop' = nAppends
    /\ UNCHANGED config
    /\ UNCHANGED <<ping_history, pc, probeFailed, icon_file, icon,
                   nProbes, nAppends, nUpdates>>
    /\ UNCHANGED drawVars
    /\ UNCHANGED windowVars

\* self.window_manager.cleanup() (lines 167, 256-258)
QuitCleanup ==
    /\ qpc = "stopped"
    /\ StopUpdateTimer
    /\ qpc' = "cleaned"
    /\ UNCHANGED <<atStop, config>>
    /\ UNCHANGED <<window, graph_view, visibleWindows, needsDisplay, nWindows,
                   nTimers, lastShow>>
    /\ UNCHANGED samplerVars
    /\ UNCHANGED drawVars

\* os.close / os.unlink of the temporary icon file (lines 170-175)
QuitUnlink ==
    /\ qpc = "cleaned"
    /\ icon_file' = [exists |-> FALSE, image |-> NoImage]
    /\ qpc' = "unlinked"
    /\ UNCHANGED <<atStop, config>>
    /\ UNCHANGED <<running, ping_history, pc, probeFailed, icon,
                   nProbes, nAppends, nUpdates>>
    /\ UNCHANGED drawVars
    /\ UNCHANGED windowVars

\* rumps.quit_application() (line 177): the process ends, and the daemon
\* sampler thread with it
QuitApplication ==
    /\ qpc = "unlinked"
    /\ qpc' = "terminated"
    /\ UNCHANGED <<atStop, config>>
    /\ UNCHANGED samplerVars
    /\ UNCHANGED drawVars
    /\ UNCHANGED windowVars

(* ------------------------------------------------------------------ *)
(* Specifications                                                      *)
(* ------------------------------------------------------------------ *)

\* the sampler thread beside a main thread that opens the detail view,
\* draws it and quits
Next ==
    \/ LoopTest
    \/ Ping
    \/ TryUpdateDisplay
    \/ ExceptAppend
    \/ ExceptUpdateDisplay
    \/ Sleep
    \/ ShowDetails
    \/ DrawRectSnapshot
    \/ DrawRectDraw
    \/ QuitStop
    \/ QuitCleanup
    \/ QuitUnlink
    \/ QuitApplication

Spec == Init /\ [][Next]_vars

\* the main thread alone: every event of the detail view's lifecycle
NextWindow ==
    \/ ShowDetails
    \/ OnWindowClose
    \/ Dismiss
    \/ UpdateGraph
    \/ DrawRectSnapshot
    \/ DrawRectDraw
    \/ QuitStop
    \/ QuitCleanup
    \/ QuitUnlink
    \/ QuitApplication

SpecWindow == Init /\ [][NextWindow]_vars

\* the same with the scheduling the run loop gives: a live repeating
\* timer fires (every second, line 291) whenever the main thread is idle,
\* and quit_app, once begun, goes on to cleanup (line 167)
SpecWindowFair ==
    /\ SpecWindow
    /\ WF_vars(UpdateGraph)
    /\ WF_vars(QuitCleanup)

\* Spec and SpecWindow are the two halves of the program: the window
\* events left out of Spec change no variable of the sampler or of
\* drawRect_, and the sampler changes no variable of the window manager.

\* The renderers on every history over RenderValues and None: the program
\* after HISTORY_SIZE iterations whose probes returned that history, the
\* detail view open, the sampler about to call _update_display.
PreviousHistory(h) == <<INITIAL_LATENCY>> \o SubSeq(h, 1, Len(h) - 1)

InitRender ==
    /\ config = StandardConfig
    /\ running = TRUE
    /\ ping_history \in [1..HISTORY_SIZE -> RenderValues \cup {None}]
    /\ pc = "try_display"
    /\ probeFailed = (ping_history[HISTORY_SIZE] = None)
    /\ icon = GenerateHistogramImage(PreviousHistory(ping_history))
    /\ icon_file = [exists |-> TRUE, image |-> icon]
    /\ nProbes = HISTORY_SIZE
    /\ nAppends = HISTORY_SIZE
    /\ nUpdates = HISTORY_SIZE - 1
    /\ qpc = "idle"
    /\ atStop = 0
    /\ uipc = "idle"
    /\ snapshot = <<>>
    /\ snapStamp = [appends |-> 0, updates |-> 0]
    /\ chart = NoChart
    /\ window = 1
    /\ graph_view = 1
    /\ update_timer = 1
    /\ visibleWindows = {1}
    /\ liveTimers = {1}
    /\ needsDisplay = TRUE
    /\ nWindows = 1
    /\ nTimers = 1
    /\ lastShow = "created"

NextRender ==
    \/ TryUpdateDisplay
    \/ DrawRectSnapshot
    \/ DrawRectDraw

SpecRender == InitRender /\ [][NextRender]_vars

(* ------------------------------------------------------------------ *)
(* The sampler's display update under every configuration of Configs:  *)
(* the program after HISTORY_SIZE iterations whose display updates     *)
(* succeeded, at the display update of the last append                 *)
(* ------------------------------------------------------------------ *)

InitConfig ==
    /\ config \in Configs
    /\ running = TRUE
    /\ ping_history \in [1..HISTORY_SIZE -> RenderValues \cup {None}]
    /\ ~ZeroDivision(PreviousHistory(ping_history))
    /\ pc = "try_display"
    /\ probeFailed = (ping_history[HISTORY_SIZE] = None)
    /\ icon = GenerateHistogramImage(PreviousHistory(ping_history))
    /\ icon_file = [exists |-> TRUE, image |-> icon]
    /\ nProbes = HISTORY_SIZE
    /\ nAppends = HISTORY_SIZE
    /\ nUpdates = HISTORY_SIZE - 1
    /\ qpc = "idle"
    /\ atStop = 0
    /\ uipc = "idle"
    /\ snapshot = <<>>
    /\ snapStamp = [appends |-> 0, updates |-> 0]
    /\ chart = NoChart
    /\ window = NoWindow
    /\ graph_view = NoWindow
    /\ update_timer = NoTimer
    /\ visibleWindows = {}
    /\ liveTimers = {}
    /\ needsDisplay = FALSE
    /\ nWindows = 0
    /\ nTimers = 0
    /\ lastShow = "none"

NextConfig ==
    \/ TryUpdateDisplay
    \/ ExceptAppend
    \/ ExceptUpdateDisplay
    \/ Sleep

SpecConfig == InitConfig /\ [][NextConfig]_vars

(* ------------------------------------------------------------------ *)
(* Properties                                                          *)
(* ------------------------------------------------------------------ *)

\* a latency in milliseconds or the failure marker
ValidSample(x) == x = None \/ x >= 0
\* height in pixels of a rectangle of the bitmap
BarPixels(rect) == rect.y1 - rect.y0 + 1
\* the detail view is Open
ViewOpen == window # NoWindow /\ window \in visibleWindows

\* C1: the history always holds exactly HISTORY_SIZE samples; before any
\* append it is the baseline fill, the baseline values still held are the
\* leftmost ones, and every append (and nothing else) changes it, by
\* dropping the oldest sample and putting the new one last: the history is
\* the last HISTORY_SIZE items of the baseline followed by the appends.
C1_HistoryKeepsLastCapacity ==
    /\ [](/\ Len(ping_history) = HISTORY_SIZE
          /\ \A k \in 1..HISTORY_SIZE : ValidSample(ping_history[k])
          /\ \A k \in 1..(HISTORY_SIZE - nAppends) : ping_history[k] = INITIAL_LATENCY)
    /\ [][\/ nAppends' = nAppends /\ ping_history' = ping_history
          \/ /\ nAppends' = nAppends + 1
             /\ Len(ping_history') = HISTORY_SIZE
             /\ \A k \in 1..(HISTORY_SIZE - 1) : ping_history'[k] = ping_history[k + 1]]_vars

\* more appends than the capacity: 50, None, 50, None
C1_Witness ==
    /\ nAppends = HISTORY_SIZE + 1
    /\ ping_history[HISTORY_SIZE] = None
    /\ ping_history[HISTORY_SIZE - 1] = 50
    /\ ping_history[1] = None

\* C2: in an iteration whose probe returned None or raised, a failure
\* sample is the newest sample of the history once the iteration has
\* recorded its result, and the iteration does not end the thread.
C2_ProbeFailureNeverStopsLoop ==
    /\ (probeFailed /\ pc \in {"try_display", "except_display", "sleep", "crashed"})
          => ping_history[HISTORY_SIZE] = None
    /\ probeFailed => pc # "crashed"

\* C3: once quit_app has set running to False, no step appends to the
\* history.
C3_NoAppendAfterStop ==
    [][running = FALSE => nAppends' = nAppends /\ ping_history' = ping_history]_vars

\* C4: the list copy drawRect_ works on has HISTORY_SIZE valid samples, is
\* the whole history as it stood at one moment (the copy step yields the
\* history of that moment), and is not changed by the appends that happen
\* while the view is drawn from it.
C4_SnapshotIsWholeHistory ==
    /\ [](uipc = "drawing" =>
            /\ Len(snapshot) = HISTORY_SIZE
            /\ \A k \in 1..Len(snapshot) : ValidSample(snapshot[k]))
    /\ [][/\ (uipc = "idle" /\ uipc' = "drawing") =>
                (snapshot' = ping_history \/ snapshot' = ping_history')
          /\ (uipc = "drawing" /\ uipc' = "drawing") => snapshot' = snapshot]_vars

\* the sampler appended while the view was being drawn from its copy
C4_Witness ==
    /\ uipc = "drawing"
    /\ nAppends > snapStamp.appends
    /\ snapshot # ping_history

\* C5: every _update_display call of the sampler comes after the append
\* of its iteration: the n-th call finds at least n appends in the
\* history and publishes the image of that history, and a copy taken
\* after n calls reflects at least n appends.
C5_UpdateFollowsAppend ==
    /\ [](/\ nUpdates <= nAppends
          /\ pc \in {"try_display", "except_display"} => nUpdates + 1 <= nAppends
          /\ uipc = "drawing" => snapStamp.updates <= snapStamp.appends)
    /\ [][nUpdates' # nUpdates =>
            /\ nUpdates' <= nAppends
            /\ icon' # icon => icon' = GenerateHistogramImage(ping_history)]_vars

\* a copy taken after the second update, which shows the second append
C5_Witness ==
    /\ uipc = "drawing"
    /\ snapStamp.updates = 2
    /\ snapStamp.appends = 2
    /\ snapshot[HISTORY_SIZE] = None

\* C6: in the image the sampler has just published, a failure and a value
\* above LATENCY_MAX are full-height warning bars, a value equal to
\* LATENCY_MAX is a full-height normal bar and a value equal to
\* LATENCY_MIN is a normal bar of exactly one pixel.
C6_BitmapBoundaries ==
    pc = "sleep" =>
        /\ Len(icon.bars) = Len(ping_history)
        /\ \A k \in 1..Len(ping_history) :
              LET v == ping_history[k]
                  rect == icon.bars[k]
              IN  /\ v = None =>
                        BarPixels(rect) = BAR_HEIGHT /\ rect.fill = BAR_COLOR_WARNING
                  /\ (v # None /\ v > LATENCY_MAX) =>
                        BarPixels(rect) = BAR_HEIGHT /\ rect.fill = BAR_COLOR_WARNING
                  /\ v = LATENCY_MAX =>
                        BarPixels(rect) = BAR_HEIGHT /\ rect.fill = BAR_COLOR
                  /\ v = LATENCY_MIN =>
                        BarPixels(rect) = 1 /\ rect.fill = BAR_COLOR

\* an image of a failure, the upper boundary and the lower boundary
C6_Witness ==
    /\ pc = "sleep"
    /\ ping_history[1] = None
    /\ ping_history[2] = LATENCY_MAX
    /\ ping_history[3] = LATENCY_MIN
    /\ icon = GenerateHistogramImage(ping_history)

\* C7: every segment of the chart's line joins two consecutive samples, so
\* no segment crosses a failure.
C7_LineBreaksAtFailures ==
    chart.drawn =>
        \A k \in 2..Len(chart.line) :
            chart.line[k].op = "lineTo" => chart.line[k].i = chart.line[k - 1].i + 1

\* C8: when every sample is a failure, the published image is
\* HISTORY_SIZE full-height warning bars and the chart is one X marker
\* per sample, no data point and an empty line path.
C8_SustainedFailuresDominate ==
    (\A k \in 1..HISTORY_SIZE : ping_history[k] = None) =>
        /\ pc = "sleep" =>
              /\ Len(icon.bars) = HISTORY_SIZE
              /\ \A k \in 1..HISTORY_SIZE :
                    /\ BarPixels(icon.bars[k]) = BAR_HEIGHT
                    /\ icon.bars[k].fill = BAR_COLOR_WARNING
        /\ chart.drawn =>
              /\ Len(chart.marks) = HISTORY_SIZE
              /\ \A k \in 1..HISTORY_SIZE :
                    /\ chart.marks[k].kind = "X"
                    /\ chart.marks[k].i = k - 1
              /\ chart.line = <<>>

\* both renderers have run on a history of failures only
C8_Witness ==
    /\ \A k \in 1..HISTORY_SIZE : ping_history[k] = None
    /\ pc = "sleep"
    /\ chart.drawn

\* C9: at most one panel is on screen, the manager's window is the only
\* one that can be, and while the view is Open no step creates a window,
\* a graph view or a timer: show_details leaves all three as they are.
C9_ReopenCreatesNothing ==
    /\ [](visibleWindows \subseteq {window} /\ Cardinality(visibleWindows) <= 1)
    /\ [][ViewOpen =>
            /\ nWindows' = nWindows
            /\ nTimers' = nTimers
            /\ window' \in {window, NoWindow}
            /\ graph_view' \in {graph_view, NoWindow}
            /\ update_timer' \in {update_timer, NoTimer}]_vars

\* show_details was called on the open view and brought it forward
C9_Witness ==
    /\ lastShow = "front"
    /\ ViewOpen
    /\ nWindows = 1
    /\ nTimers = 1

\* C10 as stated: no timer is active whenever the view is Closed (no
\* window, or a window that is not visible), and a timer is active
\* whenever the view is Open before cleanup.
C10_TimerActiveIffOpen ==
    /\ ~ViewOpen => liveTimers = {}
    /\ (ViewOpen /\ qpc \in {"idle", "stopped"}) =>
          (update_timer # NoTimer /\ update_timer \in liveTimers)

\* C10 amended: a timer is active whenever the view is Open before
\* cleanup; no timer is active once on_window_close has run; after an
\* external dismissal the timer stays active until it fires, and that
\* firing cancels it.
C10_TimerStoppedOnCloseOrNextFiring ==
    /\ [](/\ window = NoWindow => (liveTimers = {} /\ update_timer = NoTimer)
          /\ (ViewOpen /\ qpc \in {"idle", "stopped"}) =>
                (update_timer # NoTimer /\ update_timer \in liveTimers))
    /\ [][(UpdateGraph /\ window # NoWindow /\ window \notin visibleWindows) =>
            (liveTimers' = {} /\ update_timer' = NoTimer)]_vars

\* a dismissed view whose timer has fired and is cancelled
C10_Witness ==
    /\ window # NoWindow
    /\ window \notin visibleWindows
    /\ nTimers = 1
    /\ liveTimers = {}
    /\ qpc = "idle"

(* ------------------------------------------------------------------ *)
(* Display errors, probes and appends, cooperative stop                *)
(* ------------------------------------------------------------------ *)

\* C11: an error raised by the display update never ends the sampler
\* thread: the thread is never left by an exception, and a display
\* update that raised leaves the published icon and the history as they
\* were (the render is skipped, nothing else is recorded).
C11_DisplayErrorNeverCrashesLoop ==
    /\ pc # "crashed"
    /\ (pc = "except_display" => probeFailed)

\* C12: at every tick boundary the number of appends equals the number
\* of probe invocations, whatever the probe and the display update did.
C12_OneAppendPerProbe ==
    pc \in {"loop", "sleep", "exited", "crashed"} => nAppends = nProbes

\* C13: once running is False the sampler performs at most one further
\* append, that of the iteration in flight, and starts at most the probe
\* of that iteration.
C13_AtMostOneAppendAfterStop ==
    running = FALSE => nAppends <= atStop + 1

(* ------------------------------------------------------------------ *)
(* The bitmap renderer                                                 *)
(* ------------------------------------------------------------------ *)

\* C17: with LATENCY_MAX equal to LATENCY_MIN no display update of the
\* sampler performs a division by zero: no call of _update_display
\* starts on a history whose rendering divides by latency_range = 0.
C17_NoDivisionByZero ==
    (config.latency_max = config.latency_min /\ pc \in {"try_display", "except_display"})
        => ~ZeroDivision(ping_history)

\* n / d rounded to the nearest integer, ties to the even one, as
\* Python's round() does (n >= 0, d > 0)
RoundHalfEven(n, d) ==
    LET q == n \div d
        r == n % d
    IN  IF 2 * r < d THEN q
        ELSE IF 2 * r > d THEN q + 1
        ELSE IF q % 2 = 0 THEN q ELSE q + 1

\* the numerator of normalized * BAR_HEIGHT for a sample in range; the
\* denominator is LATENCY_MAX - LATENCY_MIN
ScaledHeight(value) ==
    Max(0, Min(LATENCY_MAX - LATENCY_MIN, value - LATENCY_MIN)) * BAR_HEIGHT

\* C14 as stated: the bar of every sample that is not a failure and not
\* above LATENCY_MAX is max(1, round(normalized * BAR_HEIGHT)) pixels
\* high, the scaled height being rounded to the nearest pixel.
C14_BarHeightRounded ==
    pc = "sleep" =>
        \A k \in 1..HISTORY_SIZE :
            (ping_history[k] # None /\ ping_history[k] <= LATENCY_MAX) =>
                BarPixels(icon.bars[k]) =
                    Max(1, RoundHalfEven(ScaledHeight(ping_history[k]),
                                         LATENCY_MAX - LATENCY_MIN))

\* the colour of pixel (x, y) of an image: the fill of the last rectangle
\* drawn over it (both corners of a rectangle are inside it), TRANSPARENT
\* where none was drawn
Transparent == <<0, 0, 0, 0>>

PixelAt(image, x, y) ==
    LET over == {k \in 1..Len(image.bars) :
                    /\ image.bars[k].x0 <= x /\ x <= image.bars[k].x1
                    /\ image.bars[k].y0 <= y /\ y <= image.bars[k].y1}
    IN  IF over = {} THEN Transparent
        ELSE image.bars[CHOOSE k \in over : \A j \in over : j <= k].fill

\* C15: the published bitmap is Len(history) * BAR_WIDTH pixels wide
\* and BAR_HEIGHT high; the bar of sample i covers exactly the columns
\* i * BAR_WIDTH .. (i + 1) * BAR_WIDTH - 1 and the bottom bar_pixels
\* rows, 1 <= bar_pixels <= BAR_HEIGHT: every bar lies inside the image,
\* adjacent bars neither overlap nor leave a gap, and the pixels above a
\* bar are transparent.
C15_BitmapGeometry ==
    pc = "sleep" =>
        /\ icon.width = Len(ping_history) * BAR_WIDTH
        /\ icon.height = BAR_HEIGHT
        /\ Len(icon.bars) = Len(ping_history)
        /\ \A k \in 1..Len(icon.bars) :
              LET bar == icon.bars[k]
              IN  /\ bar.x0 = (k - 1) * BAR_WIDTH
                  /\ bar.x1 = k * BAR_WIDTH - 1
                  /\ bar.y1 = icon.height - 1
                  /\ 1 <= BarPixels(bar) /\ BarPixels(bar) <= BAR_HEIGHT
                  /\ 0 <= bar.x0 /\ bar.x1 < icon.width /\ 0 <= bar.y0
                  /\ k < Len(icon.bars) => icon.bars[k + 1].x0 = bar.x1 + 1
                  /\ \A x \in (k - 1) * BAR_WIDTH .. k * BAR_WIDTH - 1 :
                        \A y \in 0 .. icon.height - 1 :
                            PixelAt(icon, x, y) =
                                IF y < icon.height - BarPixels(bar)
                                THEN Transparent ELSE bar.fill

\* a published bitmap with a full-height bar next to a shorter one of the
\* other colour
C15_Witness ==
    /\ pc = "sleep"
    /\ \E k \in 1..HISTORY_SIZE - 1 :
          /\ BarPixels(icon.bars[k]) = BAR_HEIGHT
          /\ icon.bars[k].fill = BAR_COLOR_WARNING
          /\ BarPixels(icon.bars[k + 1]) < BAR_HEIGHT
          /\ icon.bars[k + 1].fill = BAR_COLOR

(* ------------------------------------------------------------------ *)
(* The chart renderer                                                  *)
(* ------------------------------------------------------------------ *)

\* C16: the chart drawn from a history has exactly one marker per
\* sample, the marker of sample i at MARGIN_LEFT + i * graph_width /
\* (n - 1); a failure has an X marker at the bottom of the graph in the
\* warning colour, a valid sample a data point that is warning-coloured
\* if and only if its value is above LATENCY_MAX and accent-coloured
\* otherwise.
C16_OneMarkerPerSample ==
    chart.drawn =>
        /\ Len(chart.marks) = HISTORY_SIZE
        /\ \A k \in 1..HISTORY_SIZE :
              LET mark == chart.marks[k]
                  latency == ping_history[k]
              IN  /\ mark.i = k - 1
                  /\ (mark.x - MARGIN_LEFT) * (HISTORY_SIZE - 1) = (k - 1) * GraphWidth
                  /\ latency = None =>
                        /\ mark.kind = "X"
                        /\ mark.y = MARGIN_BOTTOM
                        /\ mark.color = "red"
                  /\ latency # None =>
                        /\ mark.kind = "point"
                        /\ mark.color \in {"red", "accent"}
                        /\ mark.color = "red" <=> latency > LATENCY_MAX

\* a chart drawn from a failure, a sample at LATENCY_MAX and one above it
C16_Witness ==
    /\ chart.drawn
    /\ \E k \in 1..HISTORY_SIZE :
          ping_history[k] = None /\ chart.marks[k].kind = "X"
    /\ \E k \in 1..HISTORY_SIZE :
          ping_history[k] = LATENCY_MAX /\ chart.marks[k].color = "accent"
    /\ \E k \in 1..HISTORY_SIZE :
          ping_history[k] > LATENCY_MAX /\ chart.marks[k].color = "red"

(* ------------------------------------------------------------------ *)
(* Threads and the bitmap                                              *)
(* ------------------------------------------------------------------ *)

\* C18: the bitmap is rendered only in __init__, before the sampler
\* thread runs, and by the sampler thread itself at its display updates:
\* until the sampler's first display update the icon is the one __init__
\* rendered from the baseline history; every later step that renders or
\* publishes the bitmap is a display update of the sampler, made after
\* an append of its own and with the history unchanged during the step;
\* and every step that writes the history is a step of the sampler.
C18_OnlySamplerRendersBitmap ==
    /\ [](/\ nUpdates = 0 => icon = GenerateHistogramImage(NewHistory)
          /\ pc \in {"try_display", "except_display"} => nAppends > nUpdates)
    /\ [][/\ (\/ icon' # icon
              \/ nUpdates' # nUpdates
              \/ (icon_file'.exists /\ icon_file' # icon_file)) =>
                /\ pc \in {"try_display", "except_display"}
                /\ pc' \in {"sleep", "except", "crashed"}
                /\ ping_history' = ping_history
                /\ UNCHANGED <<uipc, qpc, lastShow>>
          /\ ping_history' # ping_history =>
                /\ pc \in {"ping", "except"}
                /\ pc' \in {"try_display", "except_display"}
                /\ UNCHANGED <<icon, icon_file, uipc, qpc, lastShow>>]_vars

\* the sampler has published the bitmap of its history while the main
\* thread is drawing the chart from a copy
C18_Witness ==
    /\ pc = "sleep"
    /\ nUpdates >= 1
    /\ icon = GenerateHistogramImage(ping_history)
    /\ icon # GenerateHistogramImage(NewHistory)
    /\ uipc = "drawing"
    /\ snapStamp.updates < nUpdates

(* ------------------------------------------------------------------ *)
(* The update timer                                                    *)
(* ------------------------------------------------------------------ *)

\* C19: at most one update timer is live at any time, and it is the one
\* the manager holds: every timer the manager no longer references has
\* been invalidated.
C19_AtMostOneLiveTimer ==
    /\ Cardinality(liveTimers) <= 1
    /\ \A t \in liveTimers : t = update_timer /\ t # NoTimer
    /\ \A t \in 1..nTimers : t # update_timer => t \notin liveTimers

\* the view was dismissed and shown again: the second timer is live, the
\* first one is not
C19_Witness ==
    /\ nTimers = 2
    /\ update_timer = 2
    /\ liveTimers = {2}
    /\ nWindows = 2
    /\ ViewOpen

\* the window exists but is not visible, and a timer is still live
DismissedWithTimer ==
    /\ window # NoWindow
    /\ window \notin visibleWindows
    /\ liveTimers # {}

\* C20: a redraw is requested only for a window and graph view that
\* exist and are visible; a firing of the timer that finds the window
\* not visible cancels the timer and requests no redraw; so after an
\* external dismissal the timer does not stay live: it is cancelled,
\* unless the view is shown again first.
C20_DismissedTimerStopsAtNextFiring ==
    /\ [][(~needsDisplay /\ needsDisplay') =>
            /\ window' # NoWindow /\ graph_view' # NoWindow
            /\ window' \in visibleWindows']_vars
    /\ [][(UpdateGraph /\ DismissedWithTimer) =>
            /\ liveTimers' = {}
            /\ update_timer' = NoTimer
            /\ needsDisplay' = needsDisplay]_vars
    /\ DismissedWithTimer ~> (liveTimers = {} \/ ViewOpen)

\* the view was drawn and then dismissed; the next firing cancelled the
\* timer and requested no redraw
C20_Witness ==
    /\ window # NoWindow
    /\ window \notin visibleWindows
    /\ chart.drawn
    /\ ~needsDisplay
    /\ update_timer = NoTimer
    /\ liveTimers = {}
    /\ nTimers >= 1
    /\ qpc = "idle"

(* ------------------------------------------------------------------ *)
(* The temporary icon file at quit                                     *)
(* ------------------------------------------------------------------ *)

\* C21: once quit_app has closed and deleted the temporary icon file, no
\* display update saves the icon to that path again: from the unlink on
\* the file does not exist.
C21_NoSaveAfterUnlink ==
    qpc \in {"unlinked", "terminated"} => ~icon_file.exists

====
